---- MODULE Spec2Model ----
(***************************************************************************)
(* Model of the <form-builder> web component (src/src/form-builder.js):    *)
(* the FormBuilder element's state, its path-addressed answers structure,  *)
(* the recursive validator and the asynchronous initialize / handleSubmit  *)
(* flows with their network calls in flight.                               *)
(*                                                                         *)
(* Representation of JavaScript values                                     *)
(*   undefined            <<"undefined">>                                  *)
(*   null                 <<"null">>                                       *)
(*   a string of a field  <<"string", cs>>   cs the sequence of its chars  *)
(*   a number / NaN       <<"number", n>> / <<"nan">>                      *)
(*   a boolean            <<"boolean", b>>                                 *)
(*   an array             <<"array", elems, props>>                        *)
(*   a plain object       <<"object", props>>  props: key -> value         *)
(*   a text never looked  <<"text", s>>   (messages, tokens, urls)         *)
(*   into char by char                                                     *)
(* A string used as a dotted path is represented by the result of          *)
(* path.split('.'): a non-empty sequence of segments, '' being <<"">>;     *)
(* the empty sequence <<>> stands for a falsy path argument that is not a  *)
(* string (null, undefined), and <<".">>, which split never yields since   *)
(* a segment holds no dot, for a truthy one (123, an object, an array).    *)
(***************************************************************************)
EXTENDS Integers, Sequences, FiniteSets, TLC

\* the number of groups nested below the root of the deepest schema served
NestDepth == 12

\* bound on the number of submit events dispatched to the form
MaxSubmitEvents == 3

\* bound on the number of input / reset events dispatched to the form
MaxEdits == 2

\* validateFormFields: const MAX_DEPTH = 10
MAX_DEPTH == 10

Undef == <<"undefined">>

Null == <<"null">>

NaN == <<"nan">>

Str(cs) == <<"string", cs>>

Num(n) == <<"number", n>>

Bool(b) == <<"boolean", b>>

Text(s) == <<"text", s>>

EmptyMap == [k \in {} |-> Undef]

Arr(elems) == <<"array", elems, EmptyMap>>

Obj(props) == <<"object", props>>

\* the object literal {}
EmptyObj == Obj(EmptyMap)

TypeTag(v) == v[1]

IsArray(v) == TypeTag(v) = "array"

\* typeof v === 'object' for a non-null v
IsObjectLike(v) == TypeTag(v) \in {"object", "array"}

\* JavaScript truthiness (!v is ~Truthy(v))
Truthy(v) ==
  CASE TypeTag(v) \in {"undefined", "null", "nan"} -> FALSE
    [] TypeTag(v) = "string" -> v[2] # <<>>
    [] TypeTag(v) = "text" -> v[2] # ""
    [] TypeTag(v) = "number" -> v[2] # 0
    [] TypeTag(v) = "boolean" -> v[2]
    [] OTHER -> TRUE

\* array index denoted by a property key, 0 when the key is not an index
IndexOf(part) ==
  CASE part = "0" -> 1
    [] part = "1" -> 2
    [] part = "2" -> 3
    [] OTHER -> 0

\* the own properties of an object or of an array (beside its elements)
PropsOf(v) == IF TypeTag(v) = "array" THEN v[3] ELSE v[2]

\* value?.[part]
Member(value, part) ==
  CASE TypeTag(value) \in {"undefined", "null"} -> Undef
    [] TypeTag(value) = "object" ->
         IF part \in DOMAIN value[2] THEN value[2][part] ELSE Undef
    [] TypeTag(value) = "array" ->
         IF part = "length" THEN Num(Len(value[2]))
         ELSE IF IndexOf(part) \in 1..Len(value[2]) THEN value[2][IndexOf(part)]
         ELSE IF part \in DOMAIN value[3] THEN value[3][part]
         ELSE Undef
    [] TypeTag(value) = "string" ->
         IF part = "length" THEN Num(Len(value[2]))
         ELSE IF IndexOf(part) \in 1..Len(value[2]) THEN Str(<<value[2][IndexOf(part)]>>)
         ELSE Undef
    [] OTHER -> Undef

\* current[part] = v that leaves a key the object already has as it was
PutUnlessPresent(current, part, v) ==
  IF TypeTag(current) = "object" /\ part \in DOMAIN current[2] THEN current
  ELSE Obj([k \in DOMAIN PropsOf(current) \cup {part} |->
              IF k = part THEN v ELSE PropsOf(current)[k]])

\* current[part] = v on an object or array that is already a fresh clone
\* (part is not "length"); an index past the end lengthens the array
Put(current, part, v) ==
  LET props == PropsOf(current)
      newProps == [k \in DOMAIN props \cup {part} |-> IF k = part THEN v ELSE props[k]]
  IN IF TypeTag(current) = "array"
     THEN IF IndexOf(part) > 0
          THEN <<"array",
                 [i \in 1..(IF IndexOf(part) > Len(current[2]) THEN IndexOf(part)
                            ELSE Len(current[2])) |->
                    IF i = IndexOf(part) THEN v
                    ELSE IF i <= Len(current[2]) THEN current[2][i] ELSE Undef],
                 current[3]>>
          ELSE <<"array", current[2], newProps>>
     ELSE Obj(newProps)

\* path.split('.') without the filter
KeepParts(path) == path

\* path.split('.').filter((part) => part.length > 0)
FilterParts(path) == SelectSeq(path, LAMBDA part : part # "")

\* a path argument that is truthy and not a string
NonStringPath == <<".">>

\* !path
FalsyPath(path) == path = <<>> \/ path = <<"">>

\* !path alone, without the typeof test
BadPathFalsyOnly(path) == FalsyPath(path)

\* !path || typeof path !== 'string'
BadPath(path) == FalsyPath(path) \/ path = NonStringPath

RECURSIVE Descend(_, _)
\* for (const part of parts) value = value?.[part]
Descend(value, parts) ==
  IF parts = <<>> THEN value
  ELSE Descend(Member(value, Head(parts)), Tail(parts))

\* getNestedValue(path) read from the answers structure data
getNestedValue(data, path) ==
  IF BadPath(path) THEN Undef
  ELSE IF FilterParts(path) = <<>> THEN Undef
  ELSE Descend(data, FilterParts(path))

RECURSIVE SetAlong(_, _, _)
\* the loop of setNestedValue over the spine, then the write of the leaf
SetAlong(current, parts, value) ==
  IF Len(parts) = 1 THEN Put(current, parts[1], value)
  ELSE LET existing == Member(current, Head(parts))
           clone == IF IsArray(existing) THEN Arr(existing[2])
                    ELSE IF ~Truthy(existing) \/ ~IsObjectLike(existing) THEN EmptyObj
                    ELSE existing
       IN Put(current, Head(parts), SetAlong(clone, Tail(parts), value))

\* setNestedValue(path, value): the formData it leaves behind
setNestedValue(data, path, value) ==
  IF BadPath(path) THEN data
  ELSE IF FilterParts(path) = <<>> THEN data
  ELSE SetAlong(data, FilterParts(path), value)

(***************************************************************************)
(* setNestedValue over objects with identity.  A heap is a sequence of     *)
(* objects, an address an index into it; an object holds cells, and a cell *)
(* is a primitive value or the reference <<"ref", address>>.               *)
(***************************************************************************)
Ref(addr) == <<"ref", addr>>

IsRef(cell) == cell[1] = "ref"

\* the object literal {} and the array literal [...elems] as heap objects
HeapObject(props) == [kind |-> "object", elems |-> <<>>, props |-> props]

HeapArray(elems) == [kind |-> "array", elems |-> elems, props |-> EmptyMap]

\* the property keys "0", "1", "2" of the first array elements
IndexKeys == <<"0", "1", "2">>

\* Object.keys of a heap object
KeysOf(object) ==
  {IndexKeys[i] : i \in 1..Len(object.elems)} \cup DOMAIN object.props

\* the keys that a copy by spread carries over: [...existing] takes the
\* elements and leaves the array's other properties behind
SpreadKeys(object) ==
  IF object.kind = "array" THEN {IndexKeys[i] : i \in 1..Len(object.elems)}
  ELSE DOMAIN object.props

\* heap[addr][part]
ReadProp(heap, addr, part) ==
  LET object == heap[addr]
  IN IF object.kind = "array" /\ part = "length" THEN Num(Len(object.elems))
     ELSE IF object.kind = "array" /\ IndexOf(part) \in 1..Len(object.elems)
     THEN object.elems[IndexOf(part)]
     ELSE IF part \in DOMAIN object.props THEN object.props[part]
     ELSE Undef

\* heap[addr][part] = cell, an assignment in place (part is not "length")
WriteProp(heap, addr, part, cell) ==
  LET object == heap[addr]
  IN IF object.kind = "array" /\ IndexOf(part) > 0
     THEN [heap EXCEPT ![addr].elems =
             [i \in 1..(IF IndexOf(part) > Len(object.elems) THEN IndexOf(part)
                        ELSE Len(object.elems)) |->
                IF i = IndexOf(part) THEN cell
                ELSE IF i <= Len(object.elems) THEN object.elems[i] ELSE Undef]]
     ELSE [heap EXCEPT ![addr].props =
             [k \in DOMAIN object.props \cup {part} |->
                IF k = part THEN cell ELSE object.props[k]]]

\* current[part] = existing: the node under current is used as it is
SpineNodeInPlace(heap, existing) ==
  IF IsRef(existing) THEN [heap |-> heap, addr |-> existing[2]]
  ELSE [heap |-> Append(heap, HeapObject(EmptyMap)), addr |-> Len(heap) + 1]

\* the object that setNestedValue puts under current[part] on the spine:
\* [...existing], {} or {...existing}, always a new object
SpineNode(heap, existing) ==
  [heap |-> Append(heap,
              IF IsRef(existing) /\ heap[existing[2]].kind = "array"
              THEN HeapArray(heap[existing[2]].elems)
              ELSE IF ~IsRef(existing) THEN HeapObject(EmptyMap)
              ELSE HeapObject(heap[existing[2]].props)),
   addr |-> Len(heap) + 1]

RECURSIVE SetAlongHeap(_, _, _, _)
\* the loop of setNestedValue from the node current on, then the write of the leaf
SetAlongHeap(heap, current, parts, value) ==
  IF Len(parts) = 1 THEN WriteProp(heap, current, parts[1], value)
  ELSE LET node == SpineNode(heap, ReadProp(heap, current, Head(parts)))
       IN SetAlongHeap(WriteProp(node.heap, current, Head(parts), Ref(node.addr)),
                       node.addr, Tail(parts), value)

\* const newData = this.formData: the write goes into the root it found
setNestedValueHeapInPlace(heap, root, path, value) ==
  IF BadPath(path) THEN [heap |-> heap, root |-> root]
  ELSE IF FilterParts(path) = <<>> THEN [heap |-> heap, root |-> root]
  ELSE [heap |-> SetAlongHeap(heap, root, FilterParts(path), value), root |-> root]

\* setNestedValue(path, value) with this.formData at the address root: the
\* heap and the address of this.formData it leaves behind
setNestedValueHeap(heap, root, path, value) ==
  IF BadPath(path) THEN [heap |-> heap, root |-> root]
  ELSE IF FilterParts(path) = <<>> THEN [heap |-> heap, root |-> root]
  ELSE [heap |-> SetAlongHeap(Append(heap, HeapObject(heap[root].props)),
                              Len(heap) + 1, FilterParts(path), value),
        root |-> Len(heap) + 1]

RECURSIVE StoreValue(_, _)
RECURSIVE StoreElems(_, _, _)
RECURSIVE StoreProps(_, _, _, _)
\* the value v laid out in the heap, every object and array of it at an
\* address of its own: the heap and the cell that holds v
StoreValue(heap, v) ==
  IF ~IsObjectLike(v) THEN [heap |-> heap, cell |-> v]
  ELSE LET addr == Len(heap) + 1
           empty == IF IsArray(v) THEN HeapArray(<<>>) ELSE HeapObject(EmptyMap)
           elems == IF IsArray(v) THEN v[2] ELSE <<>>
       IN [heap |-> StoreProps(StoreElems(Append(heap, empty), addr, elems),
                               addr, PropsOf(v), DOMAIN PropsOf(v)),
           cell |-> Ref(addr)]

StoreElems(heap, addr, elems) ==
  IF elems = <<>> THEN heap
  ELSE LET stored == StoreValue(heap, Head(elems))
       IN StoreElems([stored.heap EXCEPT ![addr].elems = Append(@, stored.cell)],
                     addr, Tail(elems))

StoreProps(heap, addr, props, keys) ==
  IF keys = {} THEN heap
  ELSE LET key == CHOOSE k \in keys : TRUE
           stored == StoreValue(heap, props[key])
           old == stored.heap[addr].props
       IN StoreProps([stored.heap EXCEPT ![addr].props =
                        [k \in DOMAIN old \cup {key} |->
                           IF k = key THEN stored.cell ELSE old[k]]],
                     addr, props, keys \ {key})

RECURSIVE LoadValue(_, _)
\* the value a cell holds, read through the heap
LoadValue(heap, cell) ==
  IF ~IsRef(cell) THEN cell
  ELSE LET object == heap[cell[2]]
       IN IF object.kind = "array"
          THEN <<"array", [i \in 1..Len(object.elems) |-> LoadValue(heap, object.elems[i])],
                 [k \in DOMAIN object.props |-> LoadValue(heap, object.props[k])]>>
          ELSE Obj([k \in DOMAIN object.props |-> LoadValue(heap, object.props[k])])

(***************************************************************************)
(* getSchemaAtPath.  A schema node is a record of the fields it has; its   *)
(* properties are the sequence of <<name, node>> pairs in Object.entries   *)
(* order.  [null |-> TRUE] stands for null and for a property that is not  *)
(* there, [threw |-> e] for a call that ended by throwing e.               *)
(***************************************************************************)
NoNode == [null |-> TRUE]

Threw(e) == [threw |-> e]

\* schema.properties[part], without the optional chaining
PropertyOfUnguarded(node, part) ==
  IF "properties" \notin DOMAIN node THEN Threw("TypeError")
  ELSE IF \E i \in 1..Len(node.properties) : node.properties[i][1] = part
  THEN node.properties[CHOOSE i \in 1..Len(node.properties) : node.properties[i][1] = part][2]
  ELSE NoNode

\* schema.properties?.[part]
PropertyOf(node, part) ==
  IF "properties" \in DOMAIN node
       /\ \E i \in 1..Len(node.properties) : node.properties[i][1] = part
  THEN node.properties[CHOOSE i \in 1..Len(node.properties) : node.properties[i][1] = part][2]
  ELSE NoNode

RECURSIVE SchemaDescend(_, _)
\* for (const part of parts) { schema = schema.properties?.[part]; if (!schema) return null; }
SchemaDescend(node, parts) ==
  IF parts = <<>> THEN node
  ELSE IF PropertyOf(node, Head(parts)) = NoNode THEN NoNode
  ELSE SchemaDescend(PropertyOf(node, Head(parts)), Tail(parts))

\* getSchemaAtPath(path) with this.schema = schemaNode
getSchemaAtPath(schemaNode, path) ==
  IF FalsyPath(path) THEN schemaNode
  ELSE IF path = NonStringPath THEN Threw("TypeError")
  ELSE IF FilterParts(path) = <<>> THEN schemaNode
  ELSE IF schemaNode = NoNode THEN Threw("TypeError")
  ELSE SchemaDescend(schemaNode, FilterParts(path))

\* the object literal {} assigned to errors / fieldErrors
EmptyErrors == [p \in {} |-> ""]

Has(node, field) == field \in DOMAIN node

\* Object.entries(properties) is a sequence of <<name, schema>> pairs
EntryName(entry) == entry[1]

EntryNode(entry) == entry[2]

\* basePath ? `${basePath}.${fieldName}` : fieldName
JoinPath(basePath, fieldName) ==
  IF basePath = <<"">> THEN <<fieldName>> ELSE basePath \o <<fieldName>>

\* !value in place of the three comparisons
IsMissingFalsy(value) == ~Truthy(value)

\* value === undefined || value === null || value === ''
IsMissing(value) == value = Undef \/ value = Null \/ value = Str(<<>>)

Digits == <<"0", "1", "2", "3", "4", "5", "6", "7", "8", "9">>

IsDigit(c) == \E d \in 1..10 : Digits[d] = c

DigitValue(c) == (CHOOSE d \in 1..10 : Digits[d] = c) - 1

RECURSIVE NatChars(_)
\* String(n) of a natural number
NatChars(n) == IF n < 10 THEN <<Digits[n + 1]>> ELSE NatChars(n \div 10) \o <<Digits[(n % 10) + 1]>>

NumChars(n) == IF n < 0 THEN <<"-">> \o NatChars(-n) ELSE NatChars(n)

RECURSIVE ToChars(_)
RECURSIVE JoinChars(_)
\* Array.prototype.join(',') over the elements' strings
JoinChars(elems) ==
  IF elems = <<>> THEN <<>>
  ELSE IF Len(elems) = 1 THEN ToChars(elems[1])
  ELSE ToChars(elems[1]) \o <<",">> \o JoinChars(Tail(elems))

\* String(value), the coercion RegExp.prototype.test applies to its argument
ToChars(value) ==
  CASE TypeTag(value) = "string" -> value[2]
    [] TypeTag(value) = "number" -> NumChars(value[2])
    [] TypeTag(value) = "boolean" ->
         IF value[2] THEN <<"t", "r", "u", "e">> ELSE <<"f", "a", "l", "s", "e">>
    [] TypeTag(value) = "array" -> JoinChars(value[2])
    [] TypeTag(value) = "nan" -> <<"N", "a", "N">>
    [] TypeTag(value) = "null" -> <<"n", "u", "l", "l">>
    [] TypeTag(value) = "undefined" -> <<"u", "n", "d", "e", "f", "i", "n", "e", "d">>
    [] OTHER -> <<"[", "o", "b", "j", "e", "c", "t", " ", "O", "b", "j", "e", "c", "t", "]">>

\* the characters of the class \s that the model's strings use
Whitespace == {" ", "\t", "\n"}

\* /^[^\s@]+@[^\s@]+\.[^\s@]+$/.test(cs)
emailRegex(cs) ==
  \E i, j \in 1..Len(cs) :
    /\ cs[i] = "@" /\ cs[j] = "."
    /\ 1 < i /\ i + 1 < j /\ j < Len(cs)
    /\ \A k \in (1..Len(cs)) \ {i} : cs[k] \notin Whitespace \cup {"@"}

\* the characters matched by [a-zA-Z_] among those the model's strings use
WordLetters ==
  {"a", "b", "c", "d", "e", "f", "g", "h", "i", "j", "k", "l", "m", "n", "o", "p", "q",
   "r", "s", "t", "u", "v", "w", "x", "y", "z", "A", "B", "C", "D", "E", "F", "G", "H",
   "I", "J", "K", "L", "M", "N", "O", "P", "Q", "R", "S", "T", "U", "V", "W", "X", "Y",
   "Z", "_"}

\* new RegExp(pattern).test(cs) for the patterns the schemas of the model use
regexTest(pattern, cs) ==
  CASE pattern = "^\\d{3}-\\d{3}-\\d{4}$" ->
         /\ Len(cs) = 12
         /\ \A k \in 1..12 : IF k \in {4, 8} THEN cs[k] = "-" ELSE IsDigit(cs[k])
    [] pattern = "^[a-zA-Z0-9_]+$" ->
         cs # <<>> /\ \A k \in 1..Len(cs) : IsDigit(cs[k]) \/ cs[k] \in WordLetters
    [] OTHER -> TRUE

RECURSIVE DigitsValue(_)
DigitsValue(cs) ==
  IF cs = <<>> THEN 0 ELSE 10 * DigitsValue(SubSeq(cs, 1, Len(cs) - 1)) + DigitValue(cs[Len(cs)])

\* Number(cs) of a string without surrounding whitespace, fraction or exponent
NumberOfChars(cs) ==
  IF cs = <<>> THEN Num(0)
  ELSE IF \A k \in 1..Len(cs) : IsDigit(cs[k]) THEN Num(DigitsValue(cs))
  ELSE IF cs[1] = "-" /\ Len(cs) > 1 /\ \A k \in 2..Len(cs) : IsDigit(cs[k])
       THEN Num(-DigitsValue(Tail(cs)))
  ELSE NaN

\* Number(value)
NumberOf(value) ==
  CASE TypeTag(value) = "number" -> value
    [] TypeTag(value) = "string" -> NumberOfChars(value[2])
    [] TypeTag(value) = "boolean" -> IF value[2] THEN Num(1) ELSE Num(0)
    [] TypeTag(value) = "null" -> Num(0)
    [] TypeTag(value) = "array" -> NumberOfChars(JoinChars(value[2]))
    [] OTHER -> NaN

\* value.length < bound / value.length > bound; false when value.length is not a number
LengthBelow(value, bound) ==
  TypeTag(Member(value, "length")) = "number" /\ Member(value, "length")[2] < bound

LengthAbove(value, bound) ==
  TypeTag(Member(value, "length")) = "number" /\ Member(value, "length")[2] > bound

\* the block "Email validation": errors[fieldPath] as it is after the block
EmailRule(fieldSchema, value, msg) ==
  IF Has(fieldSchema, "format") /\ fieldSchema.format = "email" /\ ~emailRegex(ToChars(value))
  THEN "Invalid email address" ELSE msg

\* the block "Pattern validation"
PatternRule(fieldSchema, value, msg) ==
  IF Has(fieldSchema, "pattern") /\ fieldSchema.pattern # ""
     /\ ~regexTest(fieldSchema.pattern, ToChars(value))
  THEN IF Has(fieldSchema, "patternErrorMessage") /\ fieldSchema.patternErrorMessage # ""
       THEN fieldSchema.patternErrorMessage ELSE "Invalid format"
  ELSE msg

\* the block "Number validation"
NumberRule(fieldSchema, value, msg) ==
  IF Has(fieldSchema, "type") /\ fieldSchema.type \in {"number", "integer"}
  THEN LET num == NumberOf(value)
       IN IF num = NaN THEN "Must be a number"
          ELSE LET m1 == IF Has(fieldSchema, "minimum") /\ num[2] < fieldSchema.minimum
                         THEN "Must be at least " \o ToString(fieldSchema.minimum) ELSE msg
               IN IF Has(fieldSchema, "maximum") /\ num[2] > fieldSchema.maximum
                  THEN "Must be at most " \o ToString(fieldSchema.maximum) ELSE m1
  ELSE msg

\* the block "String length validation"
LengthRule(fieldSchema, value, msg) ==
  IF Has(fieldSchema, "type") /\ fieldSchema.type = "string"
  THEN LET m1 == IF Has(fieldSchema, "minLength") /\ fieldSchema.minLength # 0
                    /\ LengthBelow(value, fieldSchema.minLength)
                 THEN "Must be at least " \o ToString(fieldSchema.minLength) \o " characters"
                 ELSE msg
       IN IF Has(fieldSchema, "maxLength") /\ fieldSchema.maxLength # 0
             /\ LengthAbove(value, fieldSchema.maxLength)
          THEN "Must be at most " \o ToString(fieldSchema.maxLength) \o " characters"
          ELSE m1
  ELSE msg

\* errors[fieldPath] after the rules of a leaf field have run, "" when none assigned it
LeafError(fieldSchema, value) ==
  IF IsMissing(value) THEN ""
  ELSE LengthRule(fieldSchema, value,
         NumberRule(fieldSchema, value,
           PatternRule(fieldSchema, value,
             EmailRule(fieldSchema, value, ""))))

\* errors[path] = msg
AssignError(errors, path, msg) ==
  [p \in DOMAIN errors \cup {path} |-> IF p = path THEN msg ELSE errors[p]]

\* Object.assign(errors, nestedErrors)
AssignAll(errors, nestedErrors) ==
  [p \in DOMAIN errors \cup DOMAIN nestedErrors |->
     IF p \in DOMAIN nestedErrors THEN nestedErrors[p] ELSE errors[p]]

RECURSIVE RequiredErrors(_, _, _, _)
\* required.forEach(...): the errors object after the loop over the required list
RequiredErrors(data, required, basePath, errors) ==
  IF required = <<>> THEN errors
  ELSE LET fieldPath == JoinPath(basePath, Head(required))
           value == getNestedValue(data, fieldPath)
       IN RequiredErrors(data, Tail(required), basePath,
            IF IsMissing(value) THEN AssignError(errors, fieldPath, "This field is required")
            ELSE errors)

RECURSIVE validateFormFields(_, _, _, _, _)
RECURSIVE EntriesErrors(_, _, _, _, _)
\* Object.entries(properties).forEach(...): the errors object after the loop
EntriesErrors(data, entries, basePath, depth, errors) ==
  IF entries = <<>> THEN errors
  ELSE LET fieldSchema == EntryNode(Head(entries))
           fieldPath == JoinPath(basePath, EntryName(Head(entries)))
           value == getNestedValue(data, fieldPath)
           leaf == LeafError(fieldSchema, value)
       IN EntriesErrors(data, Tail(entries), basePath, depth,
            IF Has(fieldSchema, "type") /\ fieldSchema.type = "object"
               /\ Has(fieldSchema, "properties")
            THEN AssignAll(errors,
                   validateFormFields(data, fieldSchema.properties,
                     IF Has(fieldSchema, "required") THEN fieldSchema.required ELSE <<>>,
                     fieldPath, depth + 1))
            ELSE IF leaf # "" THEN AssignError(errors, fieldPath, leaf)
            ELSE errors)

\* validateFormFields without the test of depth
validateFormFieldsUnbounded(data, properties, required, basePath, depth) ==
  EntriesErrors(data, properties, basePath, depth,
    RequiredErrors(data, required, basePath, EmptyErrors))

\* validateFormFields(properties, required, basePath, depth) over the answers data
validateFormFields(data, properties, required, basePath, depth) ==
  IF depth > MAX_DEPTH THEN EmptyErrors
  ELSE EntriesErrors(data, properties, basePath, depth,
         RequiredErrors(data, required, basePath, EmptyErrors))

\* validateForm(): the fieldErrors it assigns
validateFormErrors(schemaNode, data) ==
  validateFormFields(data,
    IF Has(schemaNode, "properties") THEN schemaNode.properties ELSE <<>>,
    IF Has(schemaNode, "required") THEN schemaNode.required ELSE <<>>,
    <<"">>, 0)

\* validateForm() returning true whatever the errors
validateFormOkIgnoringErrors(schemaNode, data) == TRUE

\* validateForm(): its return value, Object.keys(this.fieldErrors).length === 0
validateFormOk(schemaNode, data) == DOMAIN validateFormErrors(schemaNode, data) = {}

(***************************************************************************)
(* The collaborators: what the form service holds and what it may answer.  *)
(***************************************************************************)

\* the forms the service knows: GET /api/v1/forms/<fname> answers {version, schema, metadata}
SimpleSchema ==
  [title |-> "Test Form", type |-> "object", required |-> <<"name">>,
   properties |-> << <<"name", [type |-> "string", title |-> "Name"]>> >>]

NestedSchema ==
  [title |-> "Communication Preferences", type |-> "object",
   properties |->
     << <<"contact_information",
          [title |-> "Contact Information", type |-> "object",
           required |-> <<"email_address">>,
           properties |->
             << <<"email_address",
                  [title |-> "Email Address", type |-> "string", format |-> "email"]>> >>]>>,
        <<"preserve_selections", [type |-> "boolean"]>> >>]

\* the options of the two multi-valued fields
sFresno == <<"F", "C", "C">>

sClovis == <<"C", "C", "C">>

\* a form with a radio group, a checkbox group and a multi-select
WidgetSchema ==
  [title |-> "Communication Preferences", type |-> "object",
   required |-> <<"locations", "days">>,
   properties |->
     << <<"notification_status", [type |-> "string", title |-> "You are enrolled",
                                  enum |-> <<Str(<<"D">>)>>]>>,
        <<"receive", [type |-> "string", title |-> "Receive Updates",
                      enum |-> <<Str(<<"Y">>), Str(<<"N">>)>>]>>,
        <<"locations", [type |-> "array", title |-> "Locations",
                        items |-> [type |-> "string",
                                   enum |-> <<Str(sFresno), Str(sClovis)>>]]>>,
        <<"days", [type |-> "array", title |-> "Days",
                   items |-> [type |-> "string",
                              enum |-> <<Str(sFresno), Str(sClovis)>>]]>> >>]

\* the metadata (uiSchema) served with WidgetSchema
WidgetUiSchema ==
  Obj([k \in {"notification_status", "receive", "locations"} |->
        Obj([o \in {"ui:widget"} |->
              IF k = "locations" THEN Text("checkboxes") ELSE Text("radio")])])

\* a schema that has a title, a description and an empty properties map
EmptySchema ==
  [title |-> "Email Address Validation", description |-> "An email was sent",
   type |-> "object", properties |-> <<>>]

RECURSIVE NestedGroups(_)
\* a group that requires its string field x and holds a group g with levels
\* more groups of the same shape nested below it
NestedGroups(levels) ==
  [type |-> "object", required |-> <<"x">>,
   properties |->
     IF levels = 0 THEN << <<"x", [type |-> "string"]>> >>
     ELSE << <<"x", [type |-> "string"]>>, <<"g", NestedGroups(levels - 1)>> >>]

\* a schema nested deeper than the validator descends
DeepSchema == NestedGroups(NestDepth)

FormNames ==
  {"test-form", "communication-preferences", "comm-prefs", "validate-email", "deep-form"}

SchemaResp(fname) ==
  IF fname = "test-form"
  THEN [version |-> 1, schema |-> SimpleSchema, metadata |-> EmptyObj]
  ELSE IF fname = "validate-email"
  THEN [version |-> 1, schema |-> EmptySchema, metadata |-> EmptyObj]
  ELSE IF fname = "deep-form"
  THEN [version |-> 1, schema |-> DeepSchema, metadata |-> EmptyObj]
  ELSE IF fname = "communication-preferences"
  THEN [version |-> 1, schema |-> NestedSchema, metadata |-> EmptyObj]
  ELSE [version |-> 1, schema |-> WidgetSchema, metadata |-> WidgetUiSchema]

\* the strings typed into the text inputs
sJohn == <<"J", "o">>

sMail == <<"a", "@", "b", ".", "c">>

sNoMail == <<"a", "b">>

\* GET /api/v1/submissions/<fname>: the answers a 2xx response may carry
AnswersResp(fname) ==
  IF fname = "test-form"
  THEN {EmptyObj, Obj([k \in {"name"} |-> Str(sJohn)])}
  ELSE IF fname \in {"communication-preferences", "validate-email"}
  THEN {EmptyObj}
  ELSE IF fname = "deep-form"
  THEN {EmptyObj,
        Obj([k \in {"g"} |-> Obj([j \in {"x", "g"} |-> IF j = "x" THEN Str(sJohn)
                                                        ELSE EmptyObj])])}
  ELSE {EmptyObj, Obj([k \in {"locations"} |-> Arr(<<Str(sFresno)>>)])}

\* the input events a user can dispatch on the controls of the rendered form:
\* <<fieldPath, event.target>>
InputEvents(fname) ==
  IF fname = "test-form"
  THEN {<<<<"name">>, [type |-> "text", value |-> cs, checked |-> FALSE]>> :
          cs \in {<<>>, sJohn}}
  ELSE IF fname = "communication-preferences"
  THEN {<<<<"contact_information", "email_address">>,
          [type |-> "email", value |-> cs, checked |-> FALSE]>> : cs \in {sMail, sNoMail}}
       \cup {<<<<"preserve_selections">>, [type |-> "checkbox", value |-> <<"o", "n">>,
                                          checked |-> TRUE]>>}
  ELSE IF fname = "comm-prefs"
  THEN {<<<<"receive">>, [type |-> "radio", value |-> <<"Y">>, checked |-> TRUE]>>}
  ELSE {}

\* the change events of the checkbox group: <<fieldPath, optionValue, event.target.checked>>
CheckboxEvents(fname) ==
  IF fname = "comm-prefs"
  THEN {<<<<"locations">>, Str(cs), checked>> :
          cs \in {sFresno, sClovis}, checked \in BOOLEAN}
  ELSE {}

\* the change events of the multi-select: <<fieldPath, the values of
\* event.target.selectedOptions in document order>>
MultiSelectEvents(fname) ==
  IF fname = "comm-prefs"
  THEN {<<<<"days">>, selected>> :
          selected \in {<<>>, <<Str(sClovis)>>, <<Str(sFresno), Str(sClovis)>>}}
  ELSE {}

\* the calls of handleArrayChange: <<fieldPath, event.target.value>>
ArrayEvents(fname) ==
  IF fname = "comm-prefs"
  THEN {<<<<"locations">>, sClovis>>, <<<<"days">>, sFresno>>}
  ELSE {}

\* what fetch() may settle with: a 2xx response (with or without the
\* x-fbms-formforward header), a non-2xx response, or a rejection
PostOutcomes ==
  {[kind |-> "ok", forward |-> f] : f \in {"", "next-form"}}
  \cup {[kind |-> "status", status |-> 403, statusText |-> "Forbidden"],
        [kind |-> "status", status |-> 500, statusText |-> "Internal Server Error"]}
  \cup {[kind |-> "reject", message |-> m] : m \in {"Network error", ""}}

GetOutcomes ==
  {[kind |-> "ok"], [kind |-> "status", statusText |-> "Not Found"],
   [kind |-> "reject", message |-> "Network error"]}

(***************************************************************************)
(* The element's state.                                                    *)
(***************************************************************************)
VARIABLES
  fbmsFormFname,    \* attribute fbms-form-fname
  oidcUrl,          \* attribute oidc-url, Undef when absent
  loading, submitting, error, schema, formData, uiSchema, fbmsFormVersion,
  token, decoded, fieldErrors,
  initPc,           \* where initialize() stands: "new", "token", "fetching", "done"
  schemaFetch,      \* fetchSchema(): "idle", "pending", "ok", "failed"
  dataFetch,        \* fetchFormData(): "idle", "pending", "done"
  posts,            \* the handleSubmit flows suspended at await fetch(url, {method: 'POST'})
  netLog,           \* the fetch calls issued so far, in order
  nSubmitEvents,    \* submit events dispatched so far
  nEdits,           \* input and reset events dispatched so far
  lastDone,         \* what the handleSubmit flow that finished last did
  step,             \* the handler or continuation that ran last
  call              \* the last call made on the element, with its arguments

vars ==
  <<fbmsFormFname, oidcUrl, loading, submitting, error, schema, formData, uiSchema,
    fbmsFormVersion, token, decoded, fieldErrors, initPc, schemaFetch, dataFetch, posts,
    netLog, nSubmitEvents, nEdits, lastDone, step, call>>

\* this.schema = null
NoSchema == [null |-> TRUE]

NoFlow == [id |-> 0]

\* no call whose arguments are recorded was made yet
NoCall == [op |-> "none"]

\* constructor()
Init ==
  /\ fbmsFormFname \in FormNames
  /\ oidcUrl \in {Undef, Text("/auth/userinfo")}
  /\ loading = TRUE
  /\ submitting = FALSE
  /\ error = Null
  /\ schema = NoSchema
  /\ formData = EmptyObj
  /\ uiSchema = Null
  /\ fbmsFormVersion = Null
  /\ token = Null
  /\ decoded = [sub |-> "unknown"]
  /\ fieldErrors = EmptyErrors
  /\ initPc = "new"
  /\ schemaFetch = "idle"
  /\ dataFetch = "idle"
  /\ posts = {}
  /\ netLog = <<>>
  /\ nSubmitEvents = 0
  /\ nEdits = 0
  /\ lastDone = NoFlow
  /\ step = "constructor"
  /\ call = NoCall

\* what fetch(this.oidcUrl) may settle with; sub is "" when the token does not decode
TokenOutcomes ==
  {[kind |-> "ok", text |-> "initial-token-123", sub |-> "jdoe"],
   [kind |-> "ok", text |-> "opaque-token", sub |-> ""],
   [kind |-> "status", statusText |-> "Unauthorized"],
   [kind |-> "reject", message |-> "Network error"]}

\* err.message || fallback
MessageOr(message, fallback) == IF message # "" THEN message ELSE fallback

\* the two fetches Promise.all([this.fetchSchema(), this.fetchFormData()]) issues
StartFetches ==
  /\ schemaFetch' = "pending"
  /\ dataFetch' = "pending"

\* connectedCallback(): initialize() up to its first await
connectedCallback ==
  /\ step' = "connectedCallback"
  /\ initPc = "new"
  /\ loading' = TRUE
  /\ error' = Null
  /\ IF Truthy(oidcUrl)
     THEN /\ initPc' = "token"
          /\ netLog' = Append(netLog, "token")
          /\ UNCHANGED <<schemaFetch, dataFetch>>
     ELSE /\ initPc' = "fetching"
          /\ netLog' = netLog \o <<"schema", "data">>
          /\ StartFetches
  /\ UNCHANGED <<call, fbmsFormFname, oidcUrl, submitting, schema, formData, uiSchema,
                 fbmsFormVersion, token, decoded, fieldErrors, posts, nSubmitEvents,
                 nEdits, lastDone>>

\* fetchToken() resumes when fetch(this.oidcUrl) settles; initialize() goes on
\* to the two fetches or to its catch block
fetchToken ==
  /\ step' = "fetchToken"
  /\ initPc = "token"
  /\ \E outcome \in TokenOutcomes :
       IF outcome.kind = "ok"
       THEN /\ token' = Text(outcome.text)
            /\ decoded' = [sub |-> IF outcome.sub # "" THEN outcome.sub ELSE "unknown"]
            /\ initPc' = "fetching"
            /\ netLog' = netLog \o <<"schema", "data">>
            /\ StartFetches
            /\ UNCHANGED <<error, loading>>
       ELSE /\ error' = Text(MessageOr("Authentication failed", "Failed to initialize form"))
            /\ loading' = FALSE
            /\ initPc' = "done"
            /\ UNCHANGED <<token, decoded, netLog, schemaFetch, dataFetch>>
  /\ UNCHANGED <<call, fbmsFormFname, oidcUrl, submitting, schema, formData, uiSchema,
                 fbmsFormVersion, fieldErrors, posts, nSubmitEvents, nEdits, lastDone>>

\* the load ending with the schema fetch, without waiting for the answers fetch
fetchSchemaAlone ==
  /\ step' = "fetchSchema"
  /\ schemaFetch = "pending"
  /\ \E outcome \in GetOutcomes :
       IF outcome.kind = "ok"
       THEN /\ fbmsFormVersion' = Num(SchemaResp(fbmsFormFname).version)
            /\ schema' = SchemaResp(fbmsFormFname).schema
            /\ uiSchema' = SchemaResp(fbmsFormFname).metadata
            /\ schemaFetch' = "ok"
            /\ loading' = FALSE
            /\ initPc' = "done"
            /\ UNCHANGED error
       ELSE /\ error' = Text(MessageOr(IF outcome.kind = "status"
                                       THEN "Failed to fetch schema: " \o outcome.statusText
                                       ELSE outcome.message,
                                       "Failed to initialize form"))
            /\ loading' = FALSE
            /\ initPc' = "done"
            /\ schemaFetch' = "failed"
            /\ UNCHANGED <<fbmsFormVersion, schema, uiSchema>>
  /\ UNCHANGED <<call, fbmsFormFname, oidcUrl, submitting, formData, token, decoded, fieldErrors,
                 dataFetch, posts, netLog, nSubmitEvents, nEdits, lastDone>>

\* fetchSchema() resumes when its fetch settles; when it was the last of the two
\* fetches initialize() ends, and when it throws initialize() ends in its catch block
fetchSchema ==
  /\ step' = "fetchSchema"
  /\ schemaFetch = "pending"
  /\ \E outcome \in GetOutcomes :
       IF outcome.kind = "ok"
       THEN /\ fbmsFormVersion' = Num(SchemaResp(fbmsFormFname).version)
            /\ schema' = SchemaResp(fbmsFormFname).schema
            /\ uiSchema' = SchemaResp(fbmsFormFname).metadata
            /\ schemaFetch' = "ok"
            /\ IF dataFetch = "done"
               THEN loading' = FALSE /\ initPc' = "done"
               ELSE UNCHANGED <<loading, initPc>>
            /\ UNCHANGED error
       ELSE /\ error' = Text(MessageOr(IF outcome.kind = "status"
                                       THEN "Failed to fetch schema: " \o outcome.statusText
                                       ELSE outcome.message,
                                       "Failed to initialize form"))
            /\ loading' = FALSE
            /\ initPc' = "done"
            /\ schemaFetch' = "failed"
            /\ UNCHANGED <<fbmsFormVersion, schema, uiSchema>>
  /\ UNCHANGED <<call, fbmsFormFname, oidcUrl, submitting, formData, token, decoded, fieldErrors,
                 dataFetch, posts, netLog, nSubmitEvents, nEdits, lastDone>>

\* fetchFormData() resumes when its fetch settles; when it was the last of the
\* two fetches initialize() ends
fetchFormData ==
  /\ step' = "fetchFormData"
  /\ dataFetch = "pending"
  /\ \E outcome \in GetOutcomes :
       /\ IF outcome.kind = "ok"
          THEN formData' \in AnswersResp(fbmsFormFname)
          ELSE formData' = EmptyObj
       /\ call' = [op |-> "fetchFormData", outcome |-> outcome.kind]
  /\ dataFetch' = "done"
  /\ IF schemaFetch = "ok"
     THEN loading' = FALSE /\ initPc' = "done"
     ELSE UNCHANGED <<loading, initPc>>
  /\ UNCHANGED <<fbmsFormFname, oidcUrl, submitting, error, schema, uiSchema,
                 fbmsFormVersion, token, decoded, fieldErrors, schemaFetch, posts, netLog,
                 nSubmitEvents, nEdits, lastDone>>

\* render(): which of its four templates it returns
View ==
  IF Truthy(error) THEN "error"
  ELSE IF loading THEN "loading"
  ELSE IF schema = NoSchema \/ ~Has(schema, "properties") THEN "invalid-schema"
  ELSE "form"

\* renderField: the ui options of the field at fieldPath, looked up in
\* this.uiSchema along fieldPath.split('.')
UiOptions(ui, fieldPath) ==
  IF Truthy(Descend(ui, fieldPath)) THEN Descend(ui, fieldPath) ELSE EmptyObj

\* an element of the rendered template that takes input
Control(tag, type, name, value) == [tag |-> tag, type |-> type, name |-> name, value |-> value]

\* renderInput(fieldPath, fieldSchema, value, uiOptions): the controls of the
\* template it returns, in document order
renderInput(fieldPath, fieldSchema, uiOptions) ==
  LET type == IF Has(fieldSchema, "type") THEN fieldSchema.type ELSE ""
      format == IF Has(fieldSchema, "format") THEN fieldSchema.format ELSE ""
      widget == Member(uiOptions, "ui:widget")
      itemsEnum == Has(fieldSchema, "items") /\ Has(fieldSchema.items, "enum")
  IN IF type = "array" /\ itemsEnum /\ widget = Text("checkboxes")
     THEN [i \in 1..Len(fieldSchema.items.enum) |->
             Control("input", "checkbox", fieldPath, fieldSchema.items.enum[i])]
     ELSE IF type = "array" /\ itemsEnum
     THEN <<Control("select", "multiple", fieldPath, Undef)>>
     ELSE IF Has(fieldSchema, "enum") /\ widget = Text("radio")
     THEN [i \in 1..Len(fieldSchema.enum) |->
             Control("input", "radio", fieldPath, fieldSchema.enum[i])]
     ELSE IF Has(fieldSchema, "enum")
     THEN <<Control("select", "", fieldPath, Undef)>>
     ELSE IF type = "boolean"
     THEN <<Control("input", "checkbox", fieldPath, Undef)>>
     ELSE IF type = "string" /\ format = "email"
     THEN <<Control("input", "email", fieldPath, Undef)>>
     ELSE IF type = "string" /\ format = "date"
     THEN <<Control("input", "date", fieldPath, Undef)>>
     ELSE IF type = "string" /\ widget = Text("textarea")
     THEN <<Control("textarea", "", fieldPath, Undef)>>
     ELSE IF type = "string"
     THEN <<Control("input", "text", fieldPath, Undef)>>
     ELSE IF type \in {"number", "integer"}
     THEN <<Control("input", "number", fieldPath, Undef)>>
     ELSE <<Control("input", "text", fieldPath, Undef)>>

RECURSIVE renderField(_, _, _, _)
RECURSIVE renderFields(_, _, _)
\* renderField(fieldName, fieldSchema, basePath, depth): the controls of the
\* template it returns
renderField(fieldName, fieldSchema, basePath, depth) ==
  IF depth > MAX_DEPTH THEN <<>>
  ELSE IF Has(fieldSchema, "type") /\ fieldSchema.type = "object"
            /\ Has(fieldSchema, "properties")
  THEN renderFields(fieldSchema.properties, JoinPath(basePath, fieldName), depth + 1)
  ELSE renderInput(JoinPath(basePath, fieldName), fieldSchema,
                   UiOptions(uiSchema, JoinPath(basePath, fieldName)))

\* Object.entries(properties).map(... this.renderField(name, node, basePath, depth))
renderFields(entries, basePath, depth) ==
  IF entries = <<>> THEN <<>>
  ELSE renderField(Head(entries)[1], Head(entries)[2], basePath, depth)
         \o renderFields(Tail(entries), basePath, depth)

\* render(): what the template it returns holds
render ==
  [view |-> View,
   form |-> View = "form",
   title |-> View = "form" /\ Has(schema, "title") /\ schema.title # "",
   description |-> View = "form" /\ Has(schema, "description") /\ schema.description # "",
   controls |-> IF View = "form" THEN renderFields(schema.properties, <<"">>, 0) ELSE <<>>,
   submitButton |-> View = "form",
   resetButton |-> View = "form"]

\* the <form> element with its listeners has been rendered: render() got past
\* the loading and schema checks (a host that kept the node can still
\* dispatch events on it while the error view is shown)
FormAvailable == ~loading /\ schema # NoSchema /\ Has(schema, "properties")

\* the double-submission guard left out
SubmitGuardOff(isSubmitting) == FALSE

\* if (this.submitting) return;
SubmitGuard(isSubmitting) == isSubmitting

\* const body = {...} of handleSubmit; now stands for Date.now()
SubmitBody(now) ==
  [username |-> decoded.sub, formFname |-> fbmsFormFname, formVersion |-> fbmsFormVersion,
   timestamp |-> now, answers |-> formData]

\* handleSubmit(event) up to its await, or to one of its two early returns
handleSubmit ==
  /\ step' = "handleSubmit"
  /\ FormAvailable
  /\ nSubmitEvents < MaxSubmitEvents
  /\ nSubmitEvents' = nSubmitEvents + 1
  /\ fieldErrors' = validateFormErrors(schema, formData)
  /\ IF ~validateFormOk(schema, formData)
     THEN UNCHANGED <<submitting, error, posts, netLog>>
     ELSE IF SubmitGuard(submitting)
     THEN UNCHANGED <<submitting, error, posts, netLog>>
     ELSE /\ submitting' = TRUE
          /\ error' = Null
          /\ posts' = posts \cup {[id |-> nSubmitEvents + 1,
                                   body |-> SubmitBody(nSubmitEvents + 1),
                                   authorization |-> token, calls |-> <<"submit">>]}
          /\ netLog' = Append(netLog, "submit")
  /\ UNCHANGED <<call, fbmsFormFname, oidcUrl, loading, schema, formData, uiSchema,
                 fbmsFormVersion, token, decoded, initPc, schemaFetch, dataFetch, nEdits,
                 lastDone>>

\* throw new Error(response.statusText) without the 'Failed to submit form' prefix
SubmitErrorMessageBare(outcome) ==
  IF outcome.kind = "status" THEN outcome.statusText ELSE outcome.message

\* the message of the Error that reaches the catch block of handleSubmit
SubmitErrorMessage(outcome) ==
  IF outcome.kind = "status" THEN "Failed to submit form: " \o outcome.statusText
  ELSE outcome.message

\* this.submitting = false at the end of the try block instead of in finally
SubmittingAfterTryOnly(outcome) == outcome.kind # "ok"

\* finally { this.submitting = false; }
SubmittingAfter(outcome) == FALSE

\* form-submit-success dispatched whatever the POST settled with
SubmitEventSuccessOnly(post, outcome) == [type |-> "form-submit-success", data |-> post.body]

\* the CustomEvent handleSubmit dispatches for a POST that settled with outcome
SubmitEvent(post, outcome) ==
  IF outcome.kind = "ok"
  THEN [type |-> "form-submit-success", data |-> post.body]
  ELSE [type |-> "form-submit-error", error |-> SubmitErrorMessage(outcome)]

\* handleSubmit resumes when its POST settles and runs to its end
handleSubmitSettled ==
  /\ step' = "handleSubmitSettled"
  /\ \E post \in posts, outcome \in PostOutcomes :
       /\ posts' = posts \ {post}
       /\ error' = IF outcome.kind = "ok" THEN Null
                   ELSE Text(MessageOr(SubmitErrorMessage(outcome), "Failed to submit form"))
       /\ submitting' = SubmittingAfter(outcome)
       /\ lastDone' = [id |-> post.id, body |-> post.body, outcome |-> outcome,
                       calls |-> post.calls, events |-> <<SubmitEvent(post, outcome)>>,
                       error |-> error']
  /\ UNCHANGED <<call, fbmsFormFname, oidcUrl, loading, schema, formData, uiSchema,
                 fbmsFormVersion, token, decoded, fieldErrors, initPc, schemaFetch,
                 dataFetch, netLog, nSubmitEvents, nEdits>>

\* the fieldErrors left by "Clear field error on change"
ClearFieldError(errors, fieldPath) ==
  IF fieldPath \in DOMAIN errors /\ errors[fieldPath] # ""
  THEN [p \in DOMAIN errors \ {fieldPath} |-> errors[p]]
  ELSE errors

\* handleInputChange(fieldPath, event)
handleInputChange ==
  /\ step' = "handleInputChange"
  /\ FormAvailable
  /\ nEdits < MaxEdits
  /\ nEdits' = nEdits + 1
  /\ \E ev \in InputEvents(fbmsFormFname) :
       /\ formData' = setNestedValue(formData, ev[1],
                        IF ev[2].type = "checkbox" THEN Bool(ev[2].checked)
                        ELSE Str(ev[2].value))
       /\ fieldErrors' = ClearFieldError(fieldErrors, ev[1])
       /\ call' = [op |-> "handleInputChange", path |-> ev[1]]
  /\ UNCHANGED <<fbmsFormFname, oidcUrl, loading, submitting, error, schema, uiSchema,
                 fbmsFormVersion, token, decoded, initPc, schemaFetch, dataFetch, posts,
                 netLog, nSubmitEvents, lastDone>>

\* this.getNestedValue(fieldPath) || [], the elements of that array
CurrentArray(data, fieldPath) ==
  IF IsArray(getNestedValue(data, fieldPath)) THEN getNestedValue(data, fieldPath)[2]
  ELSE <<>>

\* newArray[index] = value on a copy of elems, index from 0 up to elems.length
SetIndex(elems, index, value) ==
  [i \in 1..(IF index < Len(elems) THEN Len(elems) ELSE index + 1) |->
     IF i = index + 1 THEN value ELSE elems[i]]

\* handleArrayChange(fieldPath, index, event): it writes the value and leaves
\* fieldErrors alone
handleArrayChange ==
  /\ step' = "handleArrayChange"
  /\ FormAvailable
  /\ nEdits < MaxEdits
  /\ nEdits' = nEdits + 1
  /\ \E ev \in ArrayEvents(fbmsFormFname) :
       \E index \in 0..Len(CurrentArray(formData, ev[1])) :
         /\ formData' = setNestedValue(formData, ev[1],
                          Arr(SetIndex(CurrentArray(formData, ev[1]), index, Str(ev[2]))))
         /\ call' = [op |-> "handleArrayChange", path |-> ev[1]]
  /\ UNCHANGED <<fbmsFormFname, oidcUrl, loading, submitting, error, schema, uiSchema,
                 fbmsFormVersion, token, decoded, fieldErrors, initPc, schemaFetch,
                 dataFetch, posts, netLog, nSubmitEvents, lastDone>>

\* handleMultiSelectChange(fieldPath, event)
handleMultiSelectChange ==
  /\ step' = "handleMultiSelectChange"
  /\ FormAvailable
  /\ nEdits < MaxEdits
  /\ nEdits' = nEdits + 1
  /\ \E ev \in MultiSelectEvents(fbmsFormFname) :
       /\ formData' = setNestedValue(formData, ev[1], Arr(ev[2]))
       /\ fieldErrors' = ClearFieldError(fieldErrors, ev[1])
       /\ call' = [op |-> "handleMultiSelectChange", path |-> ev[1]]
  /\ UNCHANGED <<fbmsFormFname, oidcUrl, loading, submitting, error, schema, uiSchema,
                 fbmsFormVersion, token, decoded, initPc, schemaFetch, dataFetch, posts,
                 netLog, nSubmitEvents, lastDone>>

\* currentArray.includes(optionValue)
Includes(elems, optionValue) == \E i \in 1..Len(elems) : elems[i] = optionValue

\* the checked branch without the includes test
CheckboxArrayAppending(elems, optionValue, checked) ==
  IF checked
  THEN Append(elems, optionValue)
  ELSE SelectSeq(elems, LAMBDA v : v # optionValue)

\* handleCheckboxArrayChange(fieldPath, optionValue, event): the new array
CheckboxArray(elems, optionValue, checked) ==
  IF checked
  THEN IF Includes(elems, optionValue) THEN elems ELSE Append(elems, optionValue)
  ELSE SelectSeq(elems, LAMBDA v : v # optionValue)

\* handleCheckboxArrayChange(fieldPath, optionValue, event)
handleCheckboxArrayChange ==
  /\ step' = "handleCheckboxArrayChange"
  /\ FormAvailable
  /\ nEdits < MaxEdits
  /\ nEdits' = nEdits + 1
  /\ \E ev \in CheckboxEvents(fbmsFormFname) :
       /\ formData' = setNestedValue(formData, ev[1],
                        Arr(CheckboxArray(CurrentArray(formData, ev[1]), ev[2], ev[3])))
       /\ fieldErrors' = ClearFieldError(fieldErrors, ev[1])
       /\ call' = [op |-> "handleCheckboxArrayChange", path |-> ev[1],
                    optionValue |-> ev[2], checked |-> ev[3]]
  /\ UNCHANGED <<fbmsFormFname, oidcUrl, loading, submitting, error, schema, uiSchema,
                 fbmsFormVersion, token, decoded, initPc, schemaFetch, dataFetch, posts,
                 netLog, nSubmitEvents, lastDone>>

\* handleReset() that clears the answers and keeps the field errors
handleResetAnswersOnly ==
  /\ step' = "handleReset"
  /\ FormAvailable
  /\ nEdits < MaxEdits
  /\ nEdits' = nEdits + 1
  /\ formData' = EmptyObj
  /\ call' = [op |-> "handleReset", before |-> formData, errorsBefore |-> fieldErrors]
  /\ UNCHANGED <<fbmsFormFname, oidcUrl, loading, submitting, error, schema, uiSchema,
                 fbmsFormVersion, token, decoded, fieldErrors, initPc, schemaFetch,
                 dataFetch, posts, netLog, nSubmitEvents, lastDone>>

\* handleReset()
handleReset ==
  /\ step' = "handleReset"
  /\ FormAvailable
  /\ nEdits < MaxEdits
  /\ nEdits' = nEdits + 1
  /\ formData' = EmptyObj
  /\ fieldErrors' = EmptyErrors
  /\ call' = [op |-> "handleReset", before |-> formData, errorsBefore |-> fieldErrors]
  /\ UNCHANGED <<fbmsFormFname, oidcUrl, loading, submitting, error, schema, uiSchema,
                 fbmsFormVersion, token, decoded, initPc, schemaFetch, dataFetch, posts,
                 netLog, nSubmitEvents, lastDone>>

Next ==
  \/ connectedCallback
  \/ fetchToken
  \/ fetchSchema
  \/ fetchFormData
  \/ handleSubmit
  \/ handleSubmitSettled
  \/ handleInputChange
  \/ handleArrayChange
  \/ handleMultiSelectChange
  \/ handleCheckboxArrayChange
  \/ handleReset

Spec == Init /\ [][Next]_vars

(***************************************************************************)
(* The public engine surface: getNestedValue, setNestedValue,              *)
(* getSchemaAtPath and validateForm called by a host on an element that    *)
(* has finished loading.  The form service of this specification serves    *)
(* one schema and any of the answers structures below.                     *)
(***************************************************************************)

sV == <<"v">>

\* a schema with a nested group a, a leaf c and a sibling group d; the name c
\* is required by the root and by d and not by a, the name b by the root and by
\* a; the leaf c carries a message of its own for the rule required, and the
\* leaf m has an email format and a minimum length
EngineSchema ==
  [title |-> "Engine", type |-> "object", required |-> <<"b", "c">>,
   properties |->
     << <<"a", [type |-> "object", required |-> <<"b">>,
                properties |-> << <<"b", [type |-> "string"]>>,
                                  <<"c", [type |-> "string"]>> >>]>>,
        <<"c", [type |-> "string", messages |-> [required |-> "Please enter c"]]>>,
        <<"d", [type |-> "object", required |-> <<"c">>,
                properties |-> << <<"c", [type |-> "number"]>> >>]>>,
        <<"m", [type |-> "string", format |-> "email", minLength |-> 5]>> >>]

\* answers structures: empty, complete, with a scalar, null or an array where
\* the schema has a group, and with false, 0 and [] under required names; the
\* array with a property of its own is what setNestedValue('a.c', ...) leaves
\* behind when a is an array
EngineAnswers ==
  {EmptyObj,
   Obj([k \in {"a", "b", "c", "d"} |->
          CASE k = "a" -> Obj([j \in {"b", "c"} |-> IF j = "b" THEN Str(sV) ELSE Str(<<>>)])
            [] k = "b" -> Str(sV)
            [] k = "c" -> Str(sV)
            [] k = "d" -> Obj([j \in {"c"} |-> Num(0)])]),
   Obj([k \in {"a", "b", "c"} |->
          CASE k = "a" -> Str(sV)
            [] k = "b" -> Arr(<<>>)
            [] k = "c" -> Bool(FALSE)]),
   Obj([k \in {"a", "c"} |-> IF k = "a" THEN Arr(<<Str(sV)>>) ELSE Null]),
   Obj([k \in {"a", "d"} |->
          IF k = "a" THEN <<"array", <<Str(sV)>>, [j \in {"c"} |-> Str(sV)]>>
          ELSE Obj([j \in {"c"} |-> Num(0)])]),
   Obj([k \in {"a", "b", "c", "d"} |->
          CASE k = "a" -> Obj([j \in {"b"} |-> Null])
            [] k = "b" -> Num(0)
            [] k = "c" -> Str(sV)
            [] k = "d" -> EmptyObj]),
   Obj([k \in {"b", "c", "m"} |-> IF k = "m" THEN Str(sNoMail) ELSE Str(sV)]),
   Obj([k \in {"b", "c", "m"} |-> IF k = "m" THEN Str(sMail \o <<"d">>) ELSE Str(sV)])}

\* path arguments: dotted strings after split('.'), with and without empty
\* segments, and the arguments that address nothing
EnginePaths ==
  {<<"a">>, <<"c">>, <<"a", "b">>, <<"a", "", "b">>, <<"", "a", "b">>, <<"a", "b", "">>,
   <<"a", "c">>, <<"d", "c">>, <<"a", "b", "c">>, <<"a", "0">>, <<"a", "1">>, <<"e", "f">>,
   <<>>, <<"">>, <<"", "">>, <<"", "", "">>, NonStringPath}

\* the values a host may write
EngineValues ==
  {Str(sV), Str(<<>>), Num(0), Bool(FALSE), Null, Undef, Arr(<<>>),
   Obj([k \in {"b"} |-> Str(sV)])}

\* the field errors an earlier validateForm() may have left behind
EngineErrors == {EmptyErrors, [p \in {<<"a", "c">>} |-> "This field is required"]}

\* an element whose initialize() has completed without error
EngineInit ==
  /\ fbmsFormFname = "engine-form"
  /\ oidcUrl = Undef
  /\ loading = FALSE
  /\ submitting = FALSE
  /\ error = Null
  /\ schema = EngineSchema
  /\ formData \in EngineAnswers
  /\ uiSchema = EmptyObj
  /\ fbmsFormVersion = Num(1)
  /\ token = Null
  /\ decoded = [sub |-> "unknown"]
  /\ fieldErrors \in EngineErrors
  /\ initPc = "done"
  /\ schemaFetch = "ok"
  /\ dataFetch = "done"
  /\ posts = {}
  /\ netLog = <<"schema", "data">>
  /\ nSubmitEvents = 0
  /\ nEdits = 0
  /\ lastDone = NoFlow
  /\ step = "initialize"
  /\ call = NoCall

\* element.getNestedValue(path)
getNestedValueCall ==
  /\ step = "initialize"
  /\ step' = "getNestedValue"
  /\ \E path \in EnginePaths :
       call' = [op |-> "getNestedValue", path |-> path,
                result |-> getNestedValue(formData, path)]
  /\ UNCHANGED <<fbmsFormFname, oidcUrl, loading, submitting, error, schema, formData,
                 uiSchema, fbmsFormVersion, token, decoded, fieldErrors, initPc,
                 schemaFetch, dataFetch, posts, netLog, nSubmitEvents, nEdits, lastDone>>

\* element.setNestedValue(path, value)
setNestedValueCall ==
  /\ step = "initialize"
  /\ step' = "setNestedValue"
  /\ \E path \in EnginePaths, value \in EngineValues :
       LET data == StoreValue(<<>>, formData)
           arg == StoreValue(data.heap, value)
           done == setNestedValueHeap(arg.heap, data.cell[2], path, arg.cell)
       IN /\ formData' = setNestedValue(formData, path, value)
          /\ call' = [op |-> "setNestedValue", path |-> path, value |-> value,
                      before |-> formData, heapBefore |-> arg.heap,
                      rootBefore |-> data.cell[2], heapAfter |-> done.heap,
                      rootAfter |-> done.root]
  /\ UNCHANGED <<fbmsFormFname, oidcUrl, loading, submitting, error, schema, uiSchema,
                 fbmsFormVersion, token, decoded, fieldErrors, initPc, schemaFetch,
                 dataFetch, posts, netLog, nSubmitEvents, nEdits, lastDone>>

\* element.getSchemaAtPath(path)
getSchemaAtPathCall ==
  /\ step = "initialize"
  /\ step' = "getSchemaAtPath"
  /\ \E path \in EnginePaths :
       call' = [op |-> "getSchemaAtPath", path |-> path,
                result |-> getSchemaAtPath(schema, path)]
  /\ UNCHANGED <<fbmsFormFname, oidcUrl, loading, submitting, error, schema, formData,
                 uiSchema, fbmsFormVersion, token, decoded, fieldErrors, initPc,
                 schemaFetch, dataFetch, posts, netLog, nSubmitEvents, nEdits, lastDone>>

\* element.validateForm() that adds the errors it finds to those already there
validateFormCallMerging ==
  /\ step = "initialize"
  /\ step' = "validateForm"
  /\ fieldErrors' = AssignAll(fieldErrors, validateFormErrors(schema, formData))
  /\ call' = [op |-> "validateForm", result |-> validateFormOk(schema, formData),
              before |-> fieldErrors]
  /\ UNCHANGED <<fbmsFormFname, oidcUrl, loading, submitting, error, schema, formData,
                 uiSchema, fbmsFormVersion, token, decoded, initPc, schemaFetch, dataFetch,
                 posts, netLog, nSubmitEvents, nEdits, lastDone>>

\* element.validateForm()
validateFormCall ==
  /\ step = "initialize"
  /\ step' = "validateForm"
  /\ fieldErrors' = validateFormErrors(schema, formData)
  /\ call' = [op |-> "validateForm", result |-> validateFormOk(schema, formData),
              before |-> fieldErrors]
  /\ UNCHANGED <<fbmsFormFname, oidcUrl, loading, submitting, error, schema, formData,
                 uiSchema, fbmsFormVersion, token, decoded, initPc, schemaFetch, dataFetch,
                 posts, netLog, nSubmitEvents, nEdits, lastDone>>

EngineNext ==
  \/ getNestedValueCall
  \/ setNestedValueCall
  \/ getSchemaAtPathCall
  \/ validateFormCall

EngineSpec == EngineInit /\ [][EngineNext]_vars

(***************************************************************************)
(* Properties of the submission state machine.                             *)
(***************************************************************************)

\* the number of POSTs among the fetch calls issued so far
SubmitCalls == Cardinality({i \in 1..Len(netLog) : netLog[i] = "submit"})

\* the handleSubmit flow that finished last got this kind of answer
LastSettled(kind) == Has(lastDone, "outcome") /\ lastDone.outcome.kind = kind

\* the handleSubmit flow that finished last got a non-2xx response with this status
LastStatus(status) == LastSettled("status") /\ lastDone.outcome.status = status

\* no submit event was dispatched since the flow that finished last began
NothingSinceLast == Has(lastDone, "outcome") /\ lastDone.id = nSubmitEvents

\* C1: at most one submission POST is in flight at any time, and a submit event
\* handled while submitting is true issues no fetch call and suspends no new flow.
C1_SingleFlight ==
  /\ [](Cardinality(posts) <= 1)
  /\ [][(step' = "handleSubmit" /\ submitting) => (netLog' = netLog /\ posts' = posts)]_vars

\* C1 witness: three submit events on answers that were valid throughout, the
\* first POST still in flight, one submission call in all.
C1_Witness ==
  /\ nSubmitEvents = 3 /\ nEdits = 0 /\ lastDone = NoFlow
  /\ validateFormOk(schema, formData)
  /\ Cardinality(posts) = 1 /\ SubmitCalls = 1

\* C2: a submit event whose validation leaves field errors issues no fetch call,
\* suspends no flow and leaves submitting as it was (false stays false), and
\* fieldErrors holds the errors found: for the schema {required: ['name'],
\* properties: {name: {type: 'string'}}} and a missing name that is exactly
\* name = 'This field is required'.
C2_InvalidSubmitStaysIdle ==
  [][(step' = "handleSubmit" /\ nSubmitEvents' = nSubmitEvents + 1)
       => /\ (fieldErrors' # EmptyErrors
                => netLog' = netLog /\ posts' = posts /\ submitting' = submitting)
          /\ (schema = SimpleSchema /\ IsMissing(getNestedValue(formData, <<"name">>))
                => /\ fieldErrors' = (<<"name">> :> "This field is required")
                   /\ netLog' = netLog /\ posts' = posts /\ submitting' = submitting)]_vars

\* C2 witness: the required name is missing, a submit event was handled, the
\* error is recorded, nothing was posted and the element is not submitting.
C2_Witness ==
  /\ step = "handleSubmit" /\ schema = SimpleSchema /\ formData = EmptyObj
  /\ fieldErrors = (<<"name">> :> "This field is required")
  /\ SubmitCalls = 0 /\ ~submitting /\ posts = {}

\* C3: submitting is true exactly while a handleSubmit flow is suspended at its
\* POST, and the step in which the POST settles (2xx, non-2xx or rejection)
\* leaves submitting false.
C3_SubmittingCleared ==
  /\ [](submitting <=> posts # {})
  /\ [][step' = "handleSubmitSettled" => ~submitting']_vars

\* C3 witness: a submission ended by a rejected fetch left submitting false, and
\* a later submit event was accepted.
C3_Witness ==
  /\ LastSettled("reject") /\ lastDone.id < nSubmitEvents
  /\ posts # {} /\ submitting

\* C4 (as claimed): a submission answered 403 while oidcUrl is configured is
\* followed by one token refresh, and then by one retry of the submission.
C4_RefreshAndRetry ==
  (LastStatus(403) /\ Truthy(oidcUrl))
    => \/ lastDone.calls = <<"submit", "token">>
       \/ lastDone.calls = <<"submit", "token", "submit">>

\* C5 (as claimed): a submission with oidcUrl configured that ends in Error after
\* a 403 has either made the refresh that failed and no retry (2 calls), or made
\* the refresh and one retry (3 calls) and reports the access-denied message.
C5_BoundedRecovery ==
  (LastStatus(403) /\ Truthy(oidcUrl) /\ Truthy(lastDone.error))
    => \/ lastDone.calls = <<"submit", "token">>
       \/ /\ lastDone.calls = <<"submit", "token", "submit">>
          /\ lastDone.error = Text("Access denied even after token refresh")

\* C6: without oidcUrl a 403 answer to the submission ends the flow at once: one
\* submission call and no token fetch at all, the error 'Failed to submit form:
\* Forbidden', and one form-submit-error event carrying that message.
C6_Generic403 ==
  (LastStatus(403) /\ ~Truthy(oidcUrl))
    => /\ lastDone.calls = <<"submit">>
       /\ \A i \in 1..Len(netLog) : netLog[i] # "token"
       /\ lastDone.error = Text("Failed to submit form: Forbidden")
       /\ lastDone.events =
            <<[type |-> "form-submit-error", error |-> "Failed to submit form: Forbidden"]>>

\* C6 witness: a submission of an element without oidc-url was answered 403.
C6_Witness == LastStatus(403) /\ oidcUrl = Undef /\ NothingSinceLast /\ ~submitting

\* C7 (as claimed): after a successful submission whose response carries the
\* header x-fbms-formforward = F, fbmsFormFname is F.
C7_ForwardReplacesSession ==
  (LastSettled("ok") /\ lastDone.outcome.forward # "" /\ NothingSinceLast)
    => fbmsFormFname = lastDone.outcome.forward

\* C8 (as claimed): after a successful submission without forward directive the
\* form and its submit button are no longer rendered.
C8_TerminalSuccessHidesForm ==
  (LastSettled("ok") /\ lastDone.outcome.forward = "" /\ NothingSinceLast)
    => View # "form"

\* C9 (as claimed): after a failed submission (non-2xx or rejected fetch) the
\* blocking error field is null and the form is still rendered.
C9_FailureKeepsForm ==
  ((LastSettled("status") \/ LastSettled("reject")) /\ NothingSinceLast)
    => error = Null /\ View = "form"

\* C10 (as claimed): an input change made while the error of a failed submission
\* is shown clears that error.
C10_EditClearsError ==
  [][(step' = "handleInputChange" /\ nEdits' = nEdits + 1 /\ NothingSinceLast
        /\ (LastSettled("status") \/ LastSettled("reject")))
       => error' = Null]_vars

(***************************************************************************)
(* Properties of the edit handlers, the path helpers and the validator.    *)
(***************************************************************************)

\* the handlers that write one field of the answers
EditSteps ==
  {"handleInputChange", "handleMultiSelectChange", "handleCheckboxArrayChange",
   "handleArrayChange"}

\* C11: when an edit handler has written the field at path p, fieldErrors holds
\* no key p at the end of that same handler call
C11_EditLeavesNoError ==
  step \in EditSteps => call.path \notin DOMAIN fieldErrors

\* a dotted path with at least one non-empty segment
ValidPath(path) == ~BadPath(path) /\ FilterParts(path) # <<>>

RECURSIVE BranchesShared(_, _, _, _, _, _)
\* along parts, the node at address new of heapAfter holds under every key
\* of the old node (every key a spread carries over, when spread is set)
\* other than the next segment the very cell the node at address old of
\* heapBefore holds
BranchesShared(spread, heapBefore, heapAfter, old, new, parts) ==
  /\ \A k \in (IF spread THEN SpreadKeys(heapBefore[old]) ELSE KeysOf(heapBefore[old]))
               \ {Head(parts)} :
       ReadProp(heapAfter, new, k) = ReadProp(heapBefore, old, k)
  /\ (Len(parts) > 1 /\ IsRef(ReadProp(heapBefore, old, Head(parts))))
       => /\ IsRef(ReadProp(heapAfter, new, Head(parts)))
          /\ BranchesShared(spread, heapBefore, heapAfter,
                            ReadProp(heapBefore, old, Head(parts))[2],
                            ReadProp(heapAfter, new, Head(parts))[2], Tail(parts))

\* no object that existed before the call was changed by it
NothingMutated ==
  \A addr \in 1..Len(call.heapBefore) : call.heapAfter[addr] = call.heapBefore[addr]

EmptySegmentForms == {<<"a", "", "b">>, <<"", "a", "b">>, <<"a", "b", "">>}

\* C14: called with 'a..b', '.a.b' or 'a.b.', getNestedValue reads the value,
\* setNestedValue leaves the structure and getSchemaAtPath returns the node
\* that the same call with 'a.b' reads, leaves and returns
C14_SegmentFiltering ==
  call.op \in {"getNestedValue", "setNestedValue", "getSchemaAtPath"}
    /\ call.path \in EmptySegmentForms
  => CASE call.op = "getNestedValue" ->
            call.result = getNestedValue(formData, <<"a", "b">>)
       [] call.op = "setNestedValue" ->
            formData = setNestedValue(call.before, <<"a", "b">>, call.value)
       [] call.op = "getSchemaAtPath" ->
            call.result = getSchemaAtPath(schema, <<"a", "b">>)

\* 'a..b' read the value stored at a.b
C14_Witness ==
  /\ step = "getNestedValue"
  /\ call.path = <<"a", "", "b">>
  /\ call.result = Str(sV)

\* null or undefined, a non-string, '', '.' and '..' after split('.')
NoPaths == {<<>>, NonStringPath, <<"">>, <<"", "">>, <<"", "", "">>}

\* C15: called with a path that is null, undefined, not a string, empty or
\* made of empty segments only, getNestedValue returns undefined and
\* setNestedValue leaves the answers structure, and its root object, as they were
C15_NoPathNoEffect ==
  call.op \in {"getNestedValue", "setNestedValue"} /\ call.path \in NoPaths
  => CASE call.op = "getNestedValue" -> call.result = Undef
       [] call.op = "setNestedValue" ->
            /\ formData = call.before
            /\ call.rootAfter = call.rootBefore
            /\ call.heapAfter = call.heapBefore

\* setNestedValue was called with a number as path on answers that are not empty
C15_Witness ==
  /\ step = "setNestedValue"
  /\ call.path = NonStringPath
  /\ call.value = Num(0)
  /\ formData = call.before
  /\ formData # EmptyObj

\* the paths of EnginePaths whose every segment names a property, and the
\* node of EngineSchema each of them names
ExistingPaths ==
  {<<"a">>, <<"c">>, <<"a", "b">>, <<"a", "c">>, <<"d", "c">>} \cup EmptySegmentForms

ExpectedNode(parts) ==
  CASE parts = <<"a">> -> EngineSchema.properties[1][2]
    [] parts = <<"c">> -> EngineSchema.properties[2][2]
    [] parts = <<"d", "c">> -> [type |-> "number"]
    [] OTHER -> [type |-> "string"]

\* the paths of EnginePaths with a segment that names nothing (e) or that
\* go on below the leaf a.b or below the properties of a
MissingPaths == {<<"e", "f">>, <<"a", "b", "c">>, <<"a", "0">>, <<"a", "1">>}

C17_ValidIffNoErrors ==
  step = "validateForm" => (call.result <=> DOMAIN fieldErrors = {})

\* validateForm() replaced a stale error by no error and returned true
C17_Witness ==
  /\ step = "validateForm"
  /\ call.result
  /\ call.before # EmptyErrors
  /\ fieldErrors = EmptyErrors

\* the root and the groups of EngineSchema, by path
GroupPaths == {<<>>, <<"a">>, <<"d">>}

\* the names the node at the path group lists as required
RequiredAt(group) ==
  LET node == getSchemaAtPath(schema, group)
  IN IF "required" \in DOMAIN node THEN {node.required[i] : i \in 1..Len(node.required)}
     ELSE {}

\* C18: after validateForm(), a name that a node lists as required has the
\* required error under its full dotted path exactly when its value is
\* undefined, null or '' (so not when it is false, 0 or []), and every
\* required error sits on a name that the immediate parent lists
C18_RequiredScoped ==
  step = "validateForm"
    => /\ \A group \in GroupPaths : \A name \in RequiredAt(group) :
            (/\ (group \o <<name>>) \in DOMAIN fieldErrors
             /\ fieldErrors[group \o <<name>>] = "This field is required")
            <=> getNestedValue(formData, group \o <<name>>) \in {Undef, Null, Str(<<>>)}
       /\ \A p \in DOMAIN fieldErrors :
            fieldErrors[p] = "This field is required"
              => p[Len(p)] \in RequiredAt(SubSeq(p, 1, Len(p) - 1))

\* the required names b and c of the root hold [] and false and have no
\* error; a.b and d.c are missing and have one; a.c, a name the root and d
\* require and a does not, is missing and has none
C18_Witness ==
  /\ step = "validateForm"
  /\ getNestedValue(formData, <<"b">>) = Arr(<<>>)
  /\ getNestedValue(formData, <<"c">>) = Bool(FALSE)
  /\ getNestedValue(formData, <<"a", "c">>) = Undef
  /\ DOMAIN fieldErrors = {<<"a", "b">>, <<"d", "c">>}

\* C19: after validateForm(), the error recorded for a missing required
\* field whose schema node sets messages.required is that message
C19_CustomMessages ==
  step = "validateForm"
    => \A p \in DOMAIN fieldErrors :
         LET node == getSchemaAtPath(schema, p)
         IN (/\ Has(node, "messages")
             /\ "required" \in DOMAIN node.messages
             /\ getNestedValue(formData, p) \in {Undef, Null, Str(<<>>)})
            => fieldErrors[p] = node.messages.required

\* C20: in the rendered form, a top-level field with an enum and the widget
\* hint 'radio' has no control at all when the enum has one member, and
\* otherwise one radio input per enum value, in order
C20_SingleValueEnum ==
  View = "form"
    => \A i \in 1..Len(schema.properties) :
         LET fieldName == schema.properties[i][1]
             fieldSchema == schema.properties[i][2]
             uiOptions == UiOptions(uiSchema, <<fieldName>>)
             controls == renderInput(<<fieldName>>, fieldSchema, uiOptions)
         IN (Has(fieldSchema, "enum") /\ Member(uiOptions, "ui:widget") = Text("radio"))
            => IF Len(fieldSchema.enum) = 1 THEN controls = <<>>
               ELSE /\ Len(controls) = Len(fieldSchema.enum)
                    /\ \A j \in 1..Len(controls) :
                         controls[j] = Control("input", "radio", <<fieldName>>,
                                               fieldSchema.enum[j])

(***************************************************************************)
(* Properties of the rendered view, the submission events, reset, the      *)
(* validator's rules and depth limit, the loading and the checkbox group.  *)
(***************************************************************************)

\* C21: a loaded root schema with an empty properties map is rendered with
\* its title and description and without form element, control or button
C21_InfoOnlyView ==
  (~loading /\ ~Truthy(error) /\ schema # NoSchema /\ Has(schema, "properties")
     /\ schema.properties = <<>>)
    => /\ render.title /\ render.description
       /\ ~render.form /\ render.controls = <<>>
       /\ ~render.submitButton /\ ~render.resetButton

C23_ResetWholesale ==
  [][step' = "handleReset"
       => /\ formData' = EmptyObj
          /\ fieldErrors' = EmptyErrors
          /\ UNCHANGED <<schema, uiSchema, fbmsFormFname, fbmsFormVersion>>]_vars

\* a reset of answers and field errors that were both non-empty
C23_Witness ==
  /\ step = "handleReset"
  /\ call.before # EmptyObj
  /\ call.errorsBefore # EmptyErrors
  /\ formData = EmptyObj
  /\ fieldErrors = EmptyErrors

\* C24: a submit event handled while submitting is set changes none of
\* formData, fieldErrors, submitting and error, issues no fetch and ends no
\* submission (so dispatches no event)
C24_SecondSubmitNoOp ==
  [][(submitting /\ step' = "handleSubmit" /\ nSubmitEvents' = nSubmitEvents + 1)
       => UNCHANGED <<formData, fieldErrors, submitting, error, posts, netLog, lastDone>>]_vars

\* C25: after validateForm(), the message recorded for a leaf field with a
\* present value is that of the first rule that fails, in the order email
\* format, pattern, numeric type and minimum/maximum, minLength/maxLength
C25_FirstFailingRule ==
  step = "validateForm"
    => \A p \in DOMAIN fieldErrors :
         LET node == getSchemaAtPath(schema, p)
             value == getNestedValue(formData, p)
             first == IF EmailRule(node, value, "") # "" THEN EmailRule(node, value, "")
                      ELSE IF PatternRule(node, value, "") # ""
                      THEN PatternRule(node, value, "")
                      ELSE IF NumberRule(node, value, "") # ""
                      THEN NumberRule(node, value, "")
                      ELSE LengthRule(node, value, "")
         IN (node # NoNode /\ ~Has(node, "properties")
               /\ value \notin {Undef, Null, Str(<<>>)})
            => fieldErrors[p] = first

\* C26: after validateForm(), fieldErrors holds the errors of the current
\* answers against the current schema and nothing else: a key that was there
\* before the pass is there after it only when the pass produces it
C26_ErrorsRebuilt ==
  step = "validateForm"
    => /\ fieldErrors = validateFormErrors(schema, formData)
       /\ \A p \in DOMAIN call.before :
            p \in DOMAIN fieldErrors => p \in DOMAIN validateFormErrors(schema, formData)

\* a pass over answers with errors dropped the stale error of a.c
C26_Witness ==
  /\ step = "validateForm"
  /\ <<"a", "c">> \in DOMAIN call.before
  /\ <<"a", "c">> \notin DOMAIN fieldErrors
  /\ <<"a", "b">> \in DOMAIN fieldErrors

\* the path of the group nested k levels below the root of DeepSchema
GroupPath(k) == [i \in 1..k |-> "g"]

\* C27: a validation pass over the schema nested deeper than 10 levels ends
\* with the required error of every group down to level 10 whose field x is
\* missing, and with no error for the groups below level 10
C27_DepthLimit ==
  (step = "handleSubmit" /\ fbmsFormFname = "deep-form")
    => DOMAIN fieldErrors
         = {GroupPath(k) \o <<"x">> : k \in
              {j \in 0..10 :
                 getNestedValue(formData, GroupPath(j) \o <<"x">>) \in {Undef, Null, Str(<<>>)}}}

\* a pass over answers that fill g.x only: the errors of levels 0 and 2..10
\* are reported, the missing fields of levels 11 and 12 are not
C27_Witness ==
  /\ step = "handleSubmit"
  /\ fbmsFormFname = "deep-form"
  /\ getNestedValue(formData, <<"g", "x">>) = Str(sJohn)
  /\ getNestedValue(formData, GroupPath(11) \o <<"x">>) = Undef
  /\ Cardinality(DOMAIN fieldErrors) = 10
  /\ <<"x">> \in DOMAIN fieldErrors
  /\ GroupPath(10) \o <<"x">> \in DOMAIN fieldErrors

\* C28: the session is loaded (loading false, no error) exactly when both
\* fetches of initialize have completed, whichever ends last; an answers fetch
\* that is rejected or answered with a non-2xx status leaves empty answers,
\* raises no error and ends the load when the schema is already there; a failed
\* schema fetch ends the load with an error
C28_LoadAfterBoth ==
  /\ (~loading /\ error = Null) => (schemaFetch = "ok" /\ dataFetch = "done")
  /\ (schemaFetch = "ok" /\ dataFetch = "done") => ~loading
  /\ (step = "fetchFormData" /\ call.outcome # "ok")
       => /\ formData = EmptyObj
          /\ dataFetch = "done"
          /\ schemaFetch = "ok" => (~loading /\ error = Null)
          /\ schemaFetch = "pending" => (loading /\ error = Null)
  /\ schemaFetch = "failed" => (~loading /\ Truthy(error))

\* the answers fetch was rejected first, then the schema arrived and ended the load
C28_Witness ==
  /\ step = "fetchSchema"
  /\ call = [op |-> "fetchFormData", outcome |-> "reject"]
  /\ schemaFetch = "ok"
  /\ dataFetch = "done"
  /\ ~loading
  /\ error = Null
  /\ formData = EmptyObj

\* array.some((v, i) => array.indexOf(v) !== i) is false
NoDuplicates(elems) ==
  \A i, j \in 1..Len(elems) : elems[i] = elems[j] => i = j

\* C29: a check or uncheck event on an option of a checkbox group whose array
\* holds no value twice leaves an array that holds no value twice: checking an
\* option already there changes nothing, checking an absent one appends it,
\* unchecking removes it, and every other option is in the array after the
\* event exactly when it was before
C29_CheckboxSet ==
  [][step' = "handleCheckboxArrayChange"
       => LET old == CurrentArray(formData, call'.path)
              new == CurrentArray(formData', call'.path)
              option == call'.optionValue
          IN  NoDuplicates(old)
                => /\ IsArray(getNestedValue(formData', call'.path))
                   /\ NoDuplicates(new)
                   /\ (call'.checked /\ Includes(old, option)) => new = old
                   /\ (call'.checked /\ ~Includes(old, option)) => new = Append(old, option)
                   /\ ~call'.checked => ~Includes(new, option)
                   /\ \A other \in {Str(sFresno), Str(sClovis)} \ {option} :
                        Includes(new, other) <=> Includes(old, other)]_vars

\* Clovis was checked after Fresno and joined it; Fresno is still there
C29_Witness ==
  /\ step = "handleCheckboxArrayChange"
  /\ call.checked
  /\ call.optionValue = Str(sClovis)
  /\ getNestedValue(formData, <<"locations">>) = Arr(<<Str(sFresno), Str(sClovis)>>)

(***************************************************************************)
(* Submissions in flight over objects with identity.  A loaded element     *)
(* whose answers live in a heap: call.heap is the heap and call.root the   *)
(* address of this.formData after the last handler that assigned it.  A    *)
(* post holds the body that JSON.stringify serialised when fetch was       *)
(* called, and under answers the reference that body.answers still holds.  *)
(***************************************************************************)
\* the answers of GET /api/v1/submissions/communication-preferences
FlightAnswers ==
  {EmptyObj,
   Obj([k \in {"contact_information", "preserve_selections"} |->
          IF k = "contact_information" THEN Obj([j \in {"email_address"} |-> Str(sMail)])
          ELSE Bool(TRUE)])}

\* an element whose initialize() has completed without error
FlightInit ==
  /\ fbmsFormFname = "communication-preferences"
  /\ oidcUrl = Undef
  /\ loading = FALSE
  /\ submitting = FALSE
  /\ error = Null
  /\ schema = SchemaResp(fbmsFormFname).schema
  /\ formData \in FlightAnswers
  /\ uiSchema = SchemaResp(fbmsFormFname).metadata
  /\ fbmsFormVersion = Num(SchemaResp(fbmsFormFname).version)
  /\ token = Null
  /\ decoded = [sub |-> "unknown"]
  /\ fieldErrors = EmptyErrors
  /\ initPc = "done"
  /\ schemaFetch = "ok"
  /\ dataFetch = "done"
  /\ posts = {}
  /\ netLog = <<"schema", "data">>
  /\ nSubmitEvents = 0
  /\ nEdits = 0
  /\ lastDone = NoFlow
  /\ step = "initialize"
  /\ call = [op |-> "initialize", heap |-> StoreValue(<<>>, formData).heap,
             root |-> StoreValue(<<>>, formData).cell[2]]

\* handleSubmit(event) up to its await, or to one of its two early returns
handleSubmitHeap ==
  /\ step' = "handleSubmit"
  /\ FormAvailable
  /\ nSubmitEvents < MaxSubmitEvents
  /\ nSubmitEvents' = nSubmitEvents + 1
  /\ fieldErrors' = validateFormErrors(schema, formData)
  /\ IF ~validateFormOk(schema, formData)
     THEN UNCHANGED <<submitting, error, posts, netLog>>
     ELSE IF SubmitGuard(submitting)
     THEN UNCHANGED <<submitting, error, posts, netLog>>
     ELSE /\ submitting' = TRUE
          /\ error' = Null
          /\ posts' = posts \cup {[id |-> nSubmitEvents + 1,
                                   body |-> [SubmitBody(nSubmitEvents + 1) EXCEPT
                                               !.answers = LoadValue(call.heap, Ref(call.root))],
                                   answers |-> Ref(call.root),
                                   authorization |-> token, calls |-> <<"submit">>]}
          /\ netLog' = Append(netLog, "submit")
  /\ UNCHANGED <<call, fbmsFormFname, oidcUrl, loading, schema, formData, uiSchema,
                 fbmsFormVersion, token, decoded, initPc, schemaFetch, dataFetch, nEdits,
                 lastDone>>

\* handleSubmit resumes when its POST settles and runs to its end; detail.data
\* is the body object, whose answers the listener reads through the heap
handleSubmitSettledHeap ==
  /\ step' = "handleSubmitSettled"
  /\ \E post \in posts, outcome \in PostOutcomes :
       /\ posts' = posts \ {post}
       /\ error' = IF outcome.kind = "ok" THEN Null
                   ELSE Text(MessageOr(SubmitErrorMessage(outcome), "Failed to submit form"))
       /\ submitting' = SubmittingAfter(outcome)
       /\ lastDone' = [id |-> post.id, body |-> post.body, outcome |-> outcome,
                       calls |-> post.calls,
                       events |-> <<SubmitEvent([post EXCEPT !.body.answers =
                                                   LoadValue(call.heap, post.answers)],
                                                outcome)>>,
                       error |-> error']
  /\ UNCHANGED <<call, fbmsFormFname, oidcUrl, loading, schema, formData, uiSchema,
                 fbmsFormVersion, token, decoded, fieldErrors, initPc, schemaFetch,
                 dataFetch, netLog, nSubmitEvents, nEdits>>

\* handleInputChange(fieldPath, event)
handleInputChangeHeap ==
  /\ step' = "handleInputChange"
  /\ FormAvailable
  /\ nEdits < MaxEdits
  /\ nEdits' = nEdits + 1
  /\ \E ev \in InputEvents(fbmsFormFname) :
       LET done == setNestedValueHeap(call.heap, call.root, ev[1],
                                      IF ev[2].type = "checkbox" THEN Bool(ev[2].checked)
                                      ELSE Str(ev[2].value))
       IN /\ formData' = LoadValue(done.heap, Ref(done.root))
          /\ fieldErrors' = ClearFieldError(fieldErrors, ev[1])
          /\ call' = [op |-> "handleInputChange", heap |-> done.heap, root |-> done.root]
  /\ UNCHANGED <<fbmsFormFname, oidcUrl, loading, submitting, error, schema, uiSchema,
                 fbmsFormVersion, token, decoded, initPc, schemaFetch, dataFetch, posts,
                 netLog, nSubmitEvents, lastDone>>

\* handleReset(): this.formData = {} is a new object
handleResetHeap ==
  /\ step' = "handleReset"
  /\ FormAvailable
  /\ nEdits < MaxEdits
  /\ nEdits' = nEdits + 1
  /\ formData' = EmptyObj
  /\ fieldErrors' = EmptyErrors
  /\ call' = [op |-> "handleReset", heap |-> Append(call.heap, HeapObject(EmptyMap)),
              root |-> Len(call.heap) + 1]
  /\ UNCHANGED <<fbmsFormFname, oidcUrl, loading, submitting, error, schema, uiSchema,
                 fbmsFormVersion, token, decoded, initPc, schemaFetch, dataFetch, posts,
                 netLog, nSubmitEvents, lastDone>>

FlightNext ==
  \/ handleSubmitHeap
  \/ handleSubmitSettledHeap
  \/ handleInputChangeHeap
  \/ handleResetHeap

FlightSpec == FlightInit /\ [][FlightNext]_vars

\* C30: a submission that enters Submitting sends the answers formData holds
\* at that moment; every edit made while it is in flight gives formData a new
\* root and leaves the answers of the envelope as they were sent; the
\* form-submit-success event carries the answers that were sent
C30_Snapshot ==
  [][/\ step' = "handleSubmit"
          => \A post \in posts' \ posts :
               /\ post.body.answers = formData
               /\ LoadValue(call.heap, post.answers) = formData
     /\ step' \in {"handleInputChange", "handleReset"}
          => /\ call'.root # call.root
             /\ formData' = LoadValue(call'.heap, Ref(call'.root))
             /\ \A post \in posts' :
                  LoadValue(call'.heap, post.answers) = post.body.answers
     /\ (step' = "handleSubmitSettled" /\ lastDone'.outcome.kind = "ok")
          => /\ lastDone'.events[1].type = "form-submit-success"
             /\ lastDone'.events[1].data.answers = lastDone'.body.answers]_vars

\* the address was changed while the submission was in flight, in the very
\* group the envelope holds; the success event still carries the one sent
C30_Witness ==
  /\ step = "handleSubmitSettled"
  /\ lastDone.outcome.kind = "ok"
  /\ getNestedValue(lastDone.body.answers, <<"contact_information", "email_address">>)
       = Str(sMail)
  /\ getNestedValue(lastDone.events[1].data.answers,
                    <<"contact_information", "email_address">>) = Str(sMail)
  /\ getNestedValue(formData, <<"contact_information", "email_address">>) = Str(sNoMail)
  /\ nEdits = 1

=============================================================================
